---- MODULE Spec2Model ----
(***************************************************************************)
(* Model of the menu crawler: the candidate selector of                    *)
(* instagram_crawler.py, the JSON cache of cache_manager.py and the run    *)
(* of main.py.                                                             *)
(*                                                                         *)
(* Text is a sequence of one-character strings.  The two Hangul syllables  *)
(* of the date pattern are written "WOL" (U+C6D4, month) and "IL" (U+C77C, *)
(* day): each stands for one character of the caption.                     *)
(***************************************************************************)
EXTENDS Integers, Sequences, FiniteSets, TLC

(***************************************************************************)
(* Python values                                                           *)
(***************************************************************************)

\* Python's None where a text is expected (a one-element tuple that is no text).
None == <<"<None>">>

\* Truth value of a text-or-None: None and "" are falsy.
Truthy(x) == x # None /\ x # <<>>

\* x if x else ""
OrEmpty(x) == IF Truthy(x) THEN x ELSE <<>>

\* sub in text
Contains(text, sub) ==
    \E i \in 0..(Len(text) - Len(sub)) :
        \A j \in 1..Len(sub) : text[i + j] = sub[j]

LowerChar(c) ==
    CASE c = "T" -> "t"
      [] c = "E" -> "e"
      [] c = "X" -> "x"
      [] c = "S" -> "s"
      [] c = "A" -> "a"
      [] c = "Y" -> "y"
      [] OTHER -> c

\* str.lower()
Lower(text) == [i \in 1..Len(text) |-> LowerChar(text[i])]

DigitChar(n) ==
    CASE n = 0 -> "0" [] n = 1 -> "1" [] n = 2 -> "2" [] n = 3 -> "3"
      [] n = 4 -> "4" [] n = 5 -> "5" [] n = 6 -> "6" [] n = 7 -> "7"
      [] n = 8 -> "8" [] n = 9 -> "9"

\* f"{n}": decimal digits of a natural number, no padding
RECURSIVE Decimal(_)
Decimal(n) ==
    IF n < 10 THEN <<DigitChar(n)>>
    ELSE Append(Decimal(n \div 10), DigitChar(n % 10))

\* f"{n:0{w}d}": decimal digits, zero-padded to width w
RECURSIVE ZeroPad(_, _)
ZeroPad(n, w) ==
    IF Len(Decimal(n)) >= w THEN Decimal(n)
    ELSE <<"0">> \o ZeroPad(n, w - 1)

(***************************************************************************)
(* datetime                                                                *)
(***************************************************************************)

IsLeap(y) == (y % 4 = 0 /\ y % 100 # 0) \/ y % 400 = 0

DaysInMonth(y, m) ==
    IF m = 2 THEN (IF IsLeap(y) THEN 29 ELSE 28)
    ELSE IF m \in {4, 6, 9, 11} THEN 30 ELSE 31

\* date + timedelta(days=1)
NextDay(d) ==
    IF d.day < DaysInMonth(d.year, d.month)
    THEN [d EXCEPT !.day = d.day + 1]
    ELSE IF d.month < 12
         THEN [year |-> d.year, month |-> d.month + 1, day |-> 1]
         ELSE [year |-> d.year + 1, month |-> 1, day |-> 1]

\* (now + timedelta(hours=h)).date(), for 0 <= h < 24
DateAfterHours(now, h) ==
    IF now.hour + h >= 24 THEN NextDay(now.date) ELSE now.date

\* date < date
DateLess(a, b) ==
    \/ a.year < b.year
    \/ a.year = b.year /\ a.month < b.month
    \/ a.year = b.year /\ a.month = b.month /\ a.day < b.day

\* date.isoformat(): YYYY-MM-DD
IsoFormat(d) ==
    ZeroPad(d.year, 4) \o <<"-">> \o ZeroPad(d.month, 2) \o <<"-">> \o ZeroPad(d.day, 2)

\* today's date in KST: (utcnow + 9h).date()
KstOffset == 9
KstToday(now) == DateAfterHours(now, KstOffset)

\* datetime.date.today(): the date on the host's local clock
HostToday(now, offset) == DateAfterHours(now, offset)

(***************************************************************************)
(* State                                                                   *)
(***************************************************************************)

VARIABLES
    utcNow,      \* the instant of the run: [date, hour] in UTC
    hostOffset,  \* hours the host's local clock is ahead of UTC
    feed,        \* the posts profile.get_posts() yields, most recent first
    selCall,     \* the selector call that has returned, or fn = "idle"
    dmCaption,   \* the date test on its own: post.caption, a text or None
    dmShape,     \* how the date text of dmCaption is written
    dmTarget,    \* the target date of the date test
    dmResult,    \* <<>> before the date test, then <<TRUE>> or <<FALSE>>
    cacheFile,   \* the content of menu_cache.json
    proc,        \* per process: the cache call in progress and its local variables
    written,     \* per date key: the image_url of the last put that returned
                 \* True for it, or of the initial mapping ("" for none)
    faults,      \* an I/O error of the operating system has happened
    mainRun      \* the last run of main(): its flags and how it ended

clockVars == <<utcNow, hostOffset>>
selVars == <<feed, selCall>>
dmVars == <<dmCaption, dmShape, dmTarget, dmResult>>
procVars == <<proc, written, faults>>
vars == <<clockVars, selVars, dmVars, cacheFile, procVars, mainRun>>

\* what the actions of one part leave alone
notSel == <<dmVars, cacheFile, procVars, mainRun>>
notDate == <<clockVars, selVars, cacheFile, procVars, mainRun>>
notCache == <<clockVars, selVars, dmVars, mainRun>>
notMain == <<hostOffset, selVars, dmVars, procVars>>

(***************************************************************************)
(* instagram_crawler.py: the selector                                      *)
(***************************************************************************)

\* date_str_1 = f"{month}WOL {day}IL"; date_str_2 = f"{month}WOL{day}IL"
DateStr1(d) == Decimal(d.month) \o <<"WOL", " ">> \o Decimal(d.day) \o <<"IL">>
DateStr2(d) == Decimal(d.month) \o <<"WOL">> \o Decimal(d.day) \o <<"IL">>

\* mutant of the test: only the pattern with a space is looked for
DateMatchSpacedOnly(caption, d) == Contains(OrEmpty(caption), DateStr1(d))

\* the test of the loop body: date_str_1 in caption or date_str_2 in caption
DateMatch(caption, d) ==
    LET c == OrEmpty(caption)
    IN  Contains(c, DateStr1(d)) \/ Contains(c, DateStr2(d))

TextBonus == 10
SingleImageBonus == 5

\* score of one candidate
Score(post) ==
    LET acc == Lower(OrEmpty(post.accessibility_caption))
    IN  (IF Contains(acc, <<"t", "e", "x", "t">>) \/ Contains(acc, <<"s", "a", "y", "s">>)
         THEN TextBonus ELSE 0)
        + (IF post.typename = "GraphImage" THEN SingleImageBonus ELSE 0)

\* The for loop over profile.get_posts(): posts[1] is the most recent post.
\* A candidate is <<score, index of the post>>; the index is the post object.
\* mutant of the loop: the break test is count > max_posts
RECURSIVE ScanOneMore(_, _, _, _)
ScanOneMore(posts, d, max_posts, count) ==
    IF count >= Len(posts) \/ count > max_posts THEN <<>>
    ELSE (IF DateMatch(posts[count + 1].caption, d)
          THEN <<(<<Score(posts[count + 1]), count + 1>>)>>
          ELSE <<>>)
         \o ScanOneMore(posts, d, max_posts, count + 1)

RECURSIVE ScanFrom(_, _, _, _)
ScanFrom(posts, d, max_posts, count) ==
    IF count >= Len(posts) \/ count >= max_posts THEN <<>>
    ELSE (IF DateMatch(posts[count + 1].caption, d)
          THEN <<(<<Score(posts[count + 1]), count + 1>>)>>
          ELSE <<>>)
         \o ScanFrom(posts, d, max_posts, count + 1)

Scan(posts, d, max_posts) == ScanFrom(posts, d, max_posts, 0)

\* candidates.sort(key=lambda x: x[0], reverse=True): a stable sort, so
\* candidates of equal score keep their order
\* mutant of the sort: a candidate goes in front of those of equal score
RECURSIVE InsertBeforeEqual(_, _)
InsertBeforeEqual(sorted, c) ==
    IF sorted = <<>> THEN <<c>>
    ELSE IF Head(sorted)[1] > c[1]
         THEN <<Head(sorted)>> \o InsertBeforeEqual(Tail(sorted), c)
         ELSE <<c>> \o sorted

RECURSIVE InsertByScore(_, _)
InsertByScore(sorted, c) ==
    IF sorted = <<>> THEN <<c>>
    ELSE IF Head(sorted)[1] >= c[1]
         THEN <<Head(sorted)>> \o InsertByScore(Tail(sorted), c)
         ELSE <<c>> \o sorted

\* mutant of the sort: the candidates are left in scan order
Unsorted(cands) == cands

RECURSIVE SortByScoreDesc(_)
SortByScoreDesc(cands) ==
    IF cands = <<>> THEN <<>>
    ELSE InsertByScore(SortByScoreDesc(SubSeq(cands, 1, Len(cands) - 1)),
                       cands[Len(cands)])

\* the end of both selectors: None, or the post of the first sorted candidate
\* (a result is <<>> for None and <<index>> for a post)
BestMatch(cands) ==
    IF cands = <<>> THEN <<>> ELSE <<SortByScoreDesc(cands)[1][2]>>

ScanLimitToday == 5
ScanLimitPast == 20

\* get_todays_menu_post(username): feedError is an exception raised by the
\* feed client, caught by the except clause
GetTodaysMenuPost(posts, feedError, now) ==
    IF feedError THEN <<>>
    ELSE BestMatch(Scan(posts, KstToday(now), ScanLimitToday))

\* max_posts = 20 if target_date < datetime.date.today() else 5
MaxPosts(target_date, now, offset) ==
    IF DateLess(target_date, HostToday(now, offset))
    THEN ScanLimitPast ELSE ScanLimitToday

\* find_menu_post_by_date(username, target_date)
FindMenuPostByDate(posts, feedError, target_date, now, offset) ==
    IF feedError THEN <<>>
    ELSE BestMatch(Scan(posts, target_date, MaxPosts(target_date, now, offset)))

(***************************************************************************)
(* The selector's environment: the account's feed and the clocks           *)
(***************************************************************************)

MaxFeed == 6

March5 == [year |-> 2024, month |-> 3, day |-> 5]
March6 == NextDay(March5)

\* "3WOL 5IL menu" and "3WOL6IL": one caption per pattern
CaptionMarch5 == DateStr1(March5) \o <<" ", "m", "e", "n", "u">>
CaptionMarch6 == DateStr2(March6)

\* "Photo says Text"
AccText == <<"P", "h", "o", "t", "o", " ", "s", "a", "y", "s", " ", "T", "e", "x", "t">>

\* The posts of the model.  For each of the two days there are two posts of
\* different score, and the four posts cover the four scores 0, 5, 10, 15;
\* a post of one day is no date match for the other day.
PostKinds ==
    { [caption |-> CaptionMarch5, accessibility_caption |-> None, typename |-> "GraphSidecar"],
      [caption |-> CaptionMarch5, accessibility_caption |-> AccText, typename |-> "GraphImage"],
      [caption |-> CaptionMarch6, accessibility_caption |-> None, typename |-> "GraphImage"],
      [caption |-> CaptionMarch6, accessibility_caption |-> AccText, typename |-> "GraphSidecar"] }

\* the dates find_menu_post_by_date is asked for
TargetDates == {March5, March6}

\* 12:00 and 20:00 UTC of March 5: 21:00 of March 5 and 05:00 of March 6 in KST
Instants == {[date |-> March5, hour |-> 12], [date |-> March5, hour |-> 20]}

\* a host on UTC and a host on UTC+13
HostOffsets == {0, 13}

Idle == [fn |-> "idle", target_date |-> March5, feedError |-> FALSE, result |-> <<>>]

InitSel ==
    /\ feed = <<>>
    /\ utcNow \in Instants
    /\ hostOffset \in HostOffsets
    /\ selCall = Idle

\* the account publishes a post: it becomes the most recent one
Publish(post) ==
    /\ selCall.fn = "idle"
    /\ Len(feed) < MaxFeed
    /\ feed' = <<post>> \o feed
    /\ UNCHANGED <<utcNow, hostOffset, selCall, notSel>>

CallGetTodaysMenuPost(feedError) ==
    /\ selCall.fn = "idle"
    /\ selCall' = [fn |-> "get_todays_menu_post", target_date |-> KstToday(utcNow),
                   feedError |-> feedError,
                   result |-> GetTodaysMenuPost(feed, feedError, utcNow)]
    /\ UNCHANGED <<feed, utcNow, hostOffset, notSel>>

CallFindMenuPostByDate(target_date, feedError) ==
    /\ selCall.fn = "idle"
    /\ selCall' = [fn |-> "find_menu_post_by_date", target_date |-> target_date,
                   feedError |-> feedError,
                   result |-> FindMenuPostByDate(feed, feedError, target_date,
                                                 utcNow, hostOffset)]
    /\ UNCHANGED <<feed, utcNow, hostOffset, notSel>>

\* the caller is done with the result
SelReturn ==
    /\ selCall.fn # "idle"
    /\ selCall' = Idle
    /\ UNCHANGED <<feed, utcNow, hostOffset, notSel>>

NextSel ==
    \/ \E post \in PostKinds : Publish(post)
    \/ \E feedError \in BOOLEAN : CallGetTodaysMenuPost(feedError)
    \/ \E target_date \in TargetDates, feedError \in BOOLEAN :
           CallFindMenuPostByDate(target_date, feedError)
    \/ SelReturn


(***************************************************************************)
(* Claims about the selector                                               *)
(***************************************************************************)

Returned == selCall.fn # "idle" /\ ~selCall.feedError

\* the scan limit of the call that returned
ScanLimit ==
    IF selCall.fn = "get_todays_menu_post" THEN ScanLimitToday
    ELSE MaxPosts(selCall.target_date, utcNow, hostOffset)

\* the indices (1 = most recent) of the date matches of the scanned window
WindowMatches ==
    {i \in 1..Len(feed) : i <= ScanLimit /\ DateMatch(feed[i].caption, selCall.target_date)}

\* C1: when the scanned window holds a date match, the selector returns a
\* date match of the window whose score is at least the score of every date
\* match of the window, wherever the posts stand in the feed.
C1_ScoreDominates ==
    Returned =>
        LET w == WindowMatches
        IN  w # {} =>
                /\ selCall.result # <<>>
                /\ selCall.result[1] \in w
                /\ \A i \in w : Score(feed[selCall.result[1]]) >= Score(feed[i])

\* a higher-scored, older date match was returned over a more recent one
C1_Witness ==
    /\ Returned /\ selCall.result # <<>>
    /\ \E i \in WindowMatches :
           i < selCall.result[1] /\ Score(feed[i]) < Score(feed[selCall.result[1]])

\* C2: of two date matches of the window with the same score, the one that
\* stands later in the feed is never returned.
C2_StableTie ==
    Returned =>
        LET w == WindowMatches
        IN  \A i, j \in w :
                (i < j /\ Score(feed[i]) = Score(feed[j])) => selCall.result # <<j>>

\* two date matches share the highest score and the more recent one was
\* returned, behind a lower-scored date match
C2_Witness ==
    /\ Returned /\ selCall.result # <<>>
    /\ \E j \in WindowMatches :
           j > selCall.result[1] /\ Score(feed[j]) = Score(feed[selCall.result[1]])
    /\ \E i \in WindowMatches : i < selCall.result[1]

\* C3: the selector returns None exactly when the scanned window holds no
\* date match, and a post it returns stands inside the window.
C3_WindowOnly ==
    Returned =>
        /\ (selCall.result = <<>>) <=> (WindowMatches = {})
        /\ selCall.result # <<>> => selCall.result[1] <= ScanLimit

\* the only date match of the feed stands behind the window: None
C3_Witness ==
    /\ Returned /\ selCall.result = <<>>
    /\ \E i \in 1..Len(feed) :
           i > ScanLimit /\ DateMatch(feed[i].caption, selCall.target_date)

\* C10: find_menu_post_by_date called with today's date in UTC+9 returns
\* what get_todays_menu_post returns for the same feed.
C10_SameResult ==
    (selCall.fn = "find_menu_post_by_date" /\ selCall.target_date = KstToday(utcNow)) =>
        selCall.result = GetTodaysMenuPost(feed, selCall.feedError, utcNow)

(***************************************************************************)
(* The date test on its own: captions and target dates                     *)
(***************************************************************************)

\* The date texts of the captions: month and day in decimal, each with or
\* without a leading zero, with no, one or two spaces between them, after
\* some other text or none.
Shapes ==
    [lead : {<<>>, <<"m", "e", "n", "u", " ">>},
     monthPad : {<<>>, <<"0">>}, month : {2, 3, 12},
     sep : {<<>>, <<" ">>, <<" ", " ">>},
     dayPad : {<<>>, <<"0">>}, day : {1, 15}]

Render(sh) ==
    sh.lead \o sh.monthPad \o Decimal(sh.month) \o <<"WOL">> \o sh.sep
        \o sh.dayPad \o Decimal(sh.day) \o <<"IL">>

DmTargets == {[year |-> 2024, month |-> m, day |-> d] : m \in {2, 3, 12}, d \in {1, 15}}

InitDate ==
    /\ dmShape \in Shapes
    /\ dmCaption \in {Render(dmShape), None, <<>>}
    /\ dmTarget \in DmTargets
    /\ dmResult = <<>>

\* the test of one post of the loop
TestCaption ==
    /\ dmResult = <<>>
    /\ dmResult' = <<DateMatch(dmCaption, dmTarget)>>
    /\ UNCHANGED <<dmCaption, dmShape, dmTarget, notDate>>

\* C4 (as claimed): the unpadded forms with or without a space are date
\* matches, and a caption whose only date text is zero-padded is none.
C4_PaddedNeverMatches ==
    (dmResult # <<>> /\ dmCaption = Render(dmShape)
        /\ dmShape.month = dmTarget.month /\ dmShape.day = dmTarget.day) =>
        /\ (dmShape.monthPad = <<>> /\ dmShape.dayPad = <<>> /\ Len(dmShape.sep) <= 1)
               => dmResult = <<TRUE>>
        /\ (dmShape.monthPad # <<>> \/ dmShape.dayPad # <<>>) => dmResult = <<FALSE>>

\* C4 (amended): a caption that writes the target's month and day is a date
\* match exactly when the day has no leading zero and at most one space
\* stands between month and day, whether or not the month has a leading
\* zero; a missing or empty caption is no date match.
C4_Unpadded ==
    dmResult # <<>> =>
        /\ (dmCaption = Render(dmShape)
                /\ dmShape.month = dmTarget.month /\ dmShape.day = dmTarget.day) =>
               (dmResult = <<TRUE>> <=> (dmShape.dayPad = <<>> /\ Len(dmShape.sep) <= 1))
        /\ dmCaption \in {None, <<>>} => dmResult = <<FALSE>>

\* "03WOL 15IL" tested for March 15 is a date match
C4_Witness ==
    /\ dmResult = <<TRUE>>
    /\ dmCaption = <<"0", "3", "WOL", " ", "1", "5", "IL">>
    /\ dmTarget.month = 3 /\ dmTarget.day = 15

(***************************************************************************)
(* cache_manager.py: the cache file                                        *)
(***************************************************************************)

\* The content of the cache file.  kind is
\*   "missing"    no file at the path
\*   "empty"      a file of zero bytes (also: just opened with mode 'w')
\*   "truncated"  a proper prefix of a dumped mapping
\*   "garbage"    text that is no JSON document
\*   "badbytes"   bytes that are no UTF-8 text
\*   "list"       the JSON document []
\*   "null"       the JSON document null
\*   "dict"       a dumped mapping; data is the mapping, date key -> entry
EmptyDict == <<>>

FileOf(kind) == [kind |-> kind, data |-> EmptyDict]

\* json.dump(cache_data, f, ...) run to the end, and the file closed
Dumped(cache_data) == [kind |-> "dict", data |-> cache_data]

\* open(cache_path, 'r', encoding='utf-8') and json.load(f): the exception
\* raised ("" for none) and the value loaded.  ioFails is an I/O error of the
\* operating system while the file is opened or read.
JsonLoad(file, ioFails) ==
    IF ioFails \/ file.kind = "missing"
        THEN [exc |-> "IOError", type |-> "", data |-> EmptyDict]
    ELSE IF file.kind = "badbytes"
        THEN [exc |-> "UnicodeDecodeError", type |-> "", data |-> EmptyDict]
    ELSE IF file.kind \in {"empty", "truncated", "garbage"}
        THEN [exc |-> "JSONDecodeError", type |-> "", data |-> EmptyDict]
    ELSE [exc |-> "", type |-> file.kind, data |-> file.data]

\* cache_data[key] = entry, on a dict
DictSet(d, key, entry) ==
    [k \in DOMAIN d \cup {key} |-> IF k = key THEN entry ELSE d[k]]

\* the entry save_menu_cache builds
NewEntry(image_url, username, now) ==
    [image_url |-> image_url, timestamp |-> now, username |-> username]

\* save_menu_cache, first part: the existing cache is loaded and the entry
\* of the date is set.  exc is the exception that reaches the outer except
\* clause ("" for none); cache_data is the mapping to be written.
SaveLoad(file, date, image_url, username, now, ioFails) ==
    IF file.kind = "missing"
        THEN [exc |-> "", cache_data |-> DictSet(EmptyDict, IsoFormat(date),
                                                 NewEntry(image_url, username, now))]
    ELSE LET r == JsonLoad(file, ioFails)
         IN  IF r.exc \in {"JSONDecodeError", "IOError"}
                 THEN [exc |-> "", cache_data |-> DictSet(EmptyDict, IsoFormat(date),
                                                          NewEntry(image_url, username, now))]
             ELSE IF r.exc # "" THEN [exc |-> r.exc, cache_data |-> EmptyDict]
             ELSE IF r.type # "dict" THEN [exc |-> "TypeError", cache_data |-> EmptyDict]
             ELSE [exc |-> "", cache_data |-> DictSet(r.data, IsoFormat(date),
                                                      NewEntry(image_url, username, now))]

\* load_menu_cache(date): exc is the exception raised to the caller ("" for
\* none); found is <<>> for None and <<entry>> for an entry
LoadMenuCache(file, date, ioFails) ==
    IF file.kind = "missing" THEN [exc |-> "", found |-> <<>>]
    ELSE LET r == JsonLoad(file, ioFails)
         IN  IF r.exc \in {"JSONDecodeError", "IOError"} THEN [exc |-> "", found |-> <<>>]
             ELSE IF r.exc # "" THEN [exc |-> r.exc, found |-> <<>>]
             ELSE IF r.type = "null" THEN [exc |-> "TypeError", found |-> <<>>]
             ELSE IF r.type = "list" THEN [exc |-> "", found |-> <<>>]
             ELSE IF IsoFormat(date) \in DOMAIN r.data
                 THEN [exc |-> "", found |-> <<r.data[IsoFormat(date)]>>]
             ELSE [exc |-> "", found |-> <<>>]

\* save_menu_cache(date, image_url, username) as one call.  readFails is an
\* I/O error while the existing file is read; w is what happens when the
\* file is written:
\*   "ok"                       open(cache_path, 'w') and json.dump succeed
\*   "open_fails"               open(cache_path, 'w') raises
\*   "write_fails"              the file is truncated, then writing raises
\*   "write_fails_after_flush"  part of the document is flushed, then writing raises
WriteOutcomes == {"ok", "open_fails", "write_fails", "write_fails_after_flush"}

SaveMenuCache(file, date, image_url, username, now, readFails, w) ==
    LET l == SaveLoad(file, date, image_url, username, now, readFails)
    IN  IF l.exc # "" THEN [file |-> file, ok |-> FALSE]
        ELSE IF w = "open_fails" THEN [file |-> file, ok |-> FALSE]
        ELSE IF w = "write_fails" THEN [file |-> FileOf("empty"), ok |-> FALSE]
        ELSE IF w = "write_fails_after_flush" THEN [file |-> FileOf("truncated"), ok |-> FALSE]
        ELSE [file |-> Dumped(l.cache_data), ok |-> TRUE]

(***************************************************************************)
(* Processes that call save_menu_cache and load_menu_cache on one file     *)
(***************************************************************************)

Procs == {"p1", "p2"}
Urls == {"X", "Y"}
Username == "acct"
CacheDates == {March5, March6}
DateKeys == {IsoFormat(d) : d \in CacheDates}

Noon == [date |-> March5, hour |-> 12]

ProcIdle ==
    [pc |-> "idle", op |-> "", date |-> March5, image_url |-> "", cache_data |-> EmptyDict,
     ok |-> FALSE, found |-> <<>>, exc |-> "", ioError |-> FALSE, seen |-> "" ]

\* the mapping of 2024-03-05 to X, as an earlier run left it
OneEntry == DictSet(EmptyDict, IsoFormat(March5), NewEntry("X", Username, Noon))

InitialFiles ==
    {FileOf(k) : k \in {"missing", "empty", "garbage", "badbytes", "list", "null"}}
    \cup {Dumped(EmptyDict), Dumped(OneEntry)}

WrittenOf(file) ==
    [k \in DateKeys |->
        IF file.kind = "dict" /\ k \in DOMAIN file.data THEN file.data[k].image_url ELSE ""]

InitCache ==
    /\ cacheFile \in InitialFiles
    /\ proc = [p \in Procs |-> ProcIdle]
    /\ written = WrittenOf(cacheFile)
    /\ faults = FALSE

\* save_menu_cache up to the update of cache_data (lines 37-56)
PutLoad(p, date, image_url, readFails) ==
    /\ proc[p].pc = "idle"
    /\ LET l == SaveLoad(cacheFile, date, image_url, Username, utcNow, readFails)
       IN  proc' = [proc EXCEPT ![p] =
                [ProcIdle EXCEPT !.pc = IF l.exc = "" THEN "loaded" ELSE "done",
                                 !.op = "put", !.date = date, !.image_url = image_url,
                                 !.cache_data = l.cache_data, !.exc = l.exc,
                                 !.seen = cacheFile.kind]]
    /\ faults' = (faults \/ (readFails /\ cacheFile.kind # "missing"))
    /\ UNCHANGED <<cacheFile, written, notCache>>

\* open(cache_path, 'w'): the file is created or truncated
PutOpen(p, openFails) ==
    /\ proc[p].pc = "loaded"
    /\ IF openFails
       THEN /\ proc' = [proc EXCEPT ![p].pc = "done", ![p].ioError = TRUE]
            /\ faults' = TRUE
            /\ UNCHANGED cacheFile
       ELSE /\ proc' = [proc EXCEPT ![p].pc = "opened"]
            /\ cacheFile' = FileOf("empty")
            /\ UNCHANGED faults
    /\ UNCHANGED <<written, notCache>>

\* json.dump has filled the buffer of the file: part of the document is flushed
PutFlush(p) ==
    /\ proc[p].pc = "opened"
    /\ cacheFile' = FileOf("truncated")
    /\ UNCHANGED <<proc, written, faults, notCache>>

\* the rest of json.dump and the close of the file, then return True; or an
\* I/O error, and return False from the outer except clause
PutWrite(p, writeFails) ==
    /\ proc[p].pc = "opened"
    /\ IF writeFails
       THEN /\ proc' = [proc EXCEPT ![p].pc = "done", ![p].ioError = TRUE]
            /\ faults' = TRUE
            /\ UNCHANGED <<cacheFile, written>>
       ELSE /\ proc' = [proc EXCEPT ![p].pc = "done", ![p].ok = TRUE]
            /\ cacheFile' = Dumped(proc[p].cache_data)
            /\ written' = [written EXCEPT ![IsoFormat(proc[p].date)] = proc[p].image_url]
            /\ UNCHANGED faults
    /\ UNCHANGED notCache

\* load_menu_cache(date)
Get(p, date, readFails) ==
    /\ proc[p].pc = "idle"
    /\ LET r == LoadMenuCache(cacheFile, date, readFails)
       IN  proc' = [proc EXCEPT ![p] =
                [ProcIdle EXCEPT !.pc = "done", !.op = "get", !.date = date,
                                 !.found = r.found, !.exc = r.exc,
                                 !.seen = cacheFile.kind]]
    /\ faults' = (faults \/ (readFails /\ cacheFile.kind # "missing"))
    /\ UNCHANGED <<cacheFile, written, notCache>>

\* the caller goes on
ProcReturn(p) ==
    /\ proc[p].pc = "done"
    /\ proc' = [proc EXCEPT ![p] = ProcIdle]
    /\ UNCHANGED <<cacheFile, written, faults, notCache>>

NextCache ==
    \/ \E p \in Procs, date \in CacheDates, image_url \in Urls, readFails \in BOOLEAN :
           PutLoad(p, date, image_url, readFails)
    \/ \E p \in Procs, openFails \in BOOLEAN : PutOpen(p, openFails)
    \/ \E p \in Procs : PutFlush(p)
    \/ \E p \in Procs, writeFails \in BOOLEAN : PutWrite(p, writeFails)
    \/ \E p \in Procs, date \in CacheDates, readFails \in BOOLEAN : Get(p, date, readFails)
    \/ \E p \in Procs : ProcReturn(p)

(***************************************************************************)
(* main.py: one run of main()                                              *)
(***************************************************************************)

NoRun ==
    [ran |-> FALSE, crawl_only |-> FALSE, today |-> March5, exit |-> "", sent |-> FALSE,
     crawled |-> FALSE, saved |-> FALSE]

\* what get_todays_menu_post returns to main: None (<<>>) or a post, of
\* which main reads the url
CrawlResults == {<<>>} \cup {<<u>> : u \in Urls}

\* The parsed arguments: has_webhook says that a webhook URL is found by one
\* of the lookups of lines 91-106, has_username that --username or
\* TARGET_INSTAGRAM_ID is set.
MainArgs == [crawl_only : BOOLEAN, no_cache : BOOLEAN, has_webhook : BOOLEAN, has_username : BOOLEAN]

\* What the run meets outside the program: the result of the crawl, I/O
\* errors while the cache is read (by load_menu_cache, by save_menu_cache),
\* the outcome of the write, and the result of send_to_kakaowork.
MainEnvs ==
    [post : CrawlResults, loadFails : BOOLEAN, saveReadFails : BOOLEAN,
     w : WriteOutcomes, sendOk : BOOLEAN]

\* The run of main() from the parsed arguments to its exit.  exit is "0",
\* "1" (sys.exit(1)) or the name of the exception that ends the run.
MainRun(args, file, now, env) ==
    LET today == KstToday(now)
        use_cache == ~args.no_cache
        run == [NoRun EXCEPT !.ran = TRUE, !.crawl_only = args.crawl_only, !.today = today]
        loaded == LoadMenuCache(file, today, env.loadFails)
        cached_url == IF use_cache /\ loaded.found # <<>>
                      THEN loaded.found[1].image_url ELSE ""
        s == SaveMenuCache(file, today, env.post[1], Username, now, env.saveReadFails, env.w)
    IN  IF ~args.crawl_only /\ ~args.has_webhook
            THEN [file |-> file, run |-> [run EXCEPT !.exit = "1"]]
        ELSE IF ~args.has_username
            THEN [file |-> file, run |-> [run EXCEPT !.exit = "1"]]
        ELSE IF use_cache /\ loaded.exc # ""
            THEN [file |-> file, run |-> [run EXCEPT !.exit = loaded.exc]]
        ELSE IF cached_url = "" /\ env.post = <<>>
            THEN [file |-> file, run |-> [run EXCEPT !.exit = "1", !.crawled = TRUE]]
        ELSE LET after == IF cached_url = "" THEN s.file ELSE file
                 r2 == IF cached_url = ""
                       THEN [run EXCEPT !.crawled = TRUE, !.saved = s.ok]
                       ELSE run
             IN  IF args.crawl_only
                     THEN [file |-> after, run |-> [r2 EXCEPT !.exit = "0"]]
                 ELSE [file |-> after,
                       run |-> [r2 EXCEPT !.sent = TRUE,
                                          !.exit = IF env.sendOk THEN "0" ELSE "1"]]

Main(args, env) ==
    /\ LET r == MainRun(args, cacheFile, utcNow, env)
       IN  /\ cacheFile' = r.file
           /\ mainRun' = r.run
    /\ UNCHANGED <<utcNow, notMain>>

\* time passes between two runs: from 21:00 KST of March 5 to 05:00 KST of March 6
Tick ==
    /\ utcNow = Noon
    /\ utcNow' = [date |-> March5, hour |-> 20]
    /\ UNCHANGED <<cacheFile, mainRun, notMain>>

InitMain ==
    /\ utcNow = Noon
    /\ cacheFile \in InitialFiles
    /\ mainRun = NoRun

NextMain ==
    \/ \E args \in MainArgs, env \in MainEnvs : Main(args, env)
    \/ Tick

(***************************************************************************)
(* Specifications                                                          *)
(***************************************************************************)

SelAtRest == feed = <<>> /\ selCall = Idle
DateAtRest ==
    /\ dmShape = [lead |-> <<>>, monthPad |-> <<>>, month |-> 3, sep |-> <<>>,
                  dayPad |-> <<>>, day |-> 1]
    /\ dmCaption = <<>>
    /\ dmTarget = March5
    /\ dmResult = <<>>
ProcsAtRest ==
    /\ proc = [p \in Procs |-> ProcIdle]
    /\ written = [k \in DateKeys |-> ""]
    /\ faults = FALSE
CacheAtRest == cacheFile = FileOf("missing") /\ ProcsAtRest
MainAtRest == mainRun = NoRun

\* the selectors over every feed, instant and host clock
InitSelSpec == InitSel /\ DateAtRest /\ CacheAtRest /\ MainAtRest
SpecSel == InitSelSpec /\ [][NextSel]_vars

\* the date test over every caption and target date
InitDateSpec ==
    /\ InitDate /\ utcNow = Noon /\ hostOffset = 0
    /\ SelAtRest /\ CacheAtRest /\ MainAtRest
NextDate == TestCaption
SpecDate == InitDateSpec /\ [][NextDate]_vars

\* two processes that put and get on one cache file
InitCacheSpec ==
    /\ InitCache /\ utcNow = Noon /\ hostOffset = 0
    /\ SelAtRest /\ DateAtRest /\ MainAtRest
SpecCache == InitCacheSpec /\ [][NextCache]_vars

\* runs of main(), one after the other, on one cache file
InitMainSpec ==
    /\ InitMain /\ hostOffset = 0
    /\ SelAtRest /\ DateAtRest /\ ProcsAtRest
SpecMain == InitMainSpec /\ [][NextMain]_vars

(***************************************************************************)
(* Claims about the cache and the run of main()                            *)
(***************************************************************************)

Quiescent == \A p \in Procs : proc[p].pc \notin {"loaded", "opened"}

HoldsEntry(file, key, image_url) ==
    /\ file.kind = "dict"
    /\ key \in DOMAIN file.data
    /\ file.data[key].image_url = image_url

\* C5: once the puts in progress have returned, every entry written for a
\* date and not overwritten by a later put for that date is in the cache
\* file with its image_url, also when the read and write steps of the puts
\* of two processes interleave (stated for runs without any I/O error).
C5_OtherDatesKept ==
    (Quiescent /\ ~faults) =>
        \A k \in DateKeys : written[k] # "" => HoldsEntry(cacheFile, k, written[k])

\* C6: every change of the cache file during a put installs the complete
\* mapping of a put in progress: a reader sees the mapping of before the put
\* or the mapping of after it, never an empty or truncated file.
C6_AtomicWrite ==
    [][cacheFile' # cacheFile =>
          \E p \in Procs : /\ proc[p].pc \in {"loaded", "opened"}
                           /\ cacheFile' = Dumped(proc[p].cache_data)]_vars

\* C7: get raises no exception to its caller, whatever the cache file
\* holds, and returns None for a file that holds no mapping.
C7_GetNeverRaises ==
    \A p \in Procs :
        (proc[p].pc = "done" /\ proc[p].op = "get") =>
            /\ proc[p].exc = ""
            /\ proc[p].seen # "dict" => proc[p].found = <<>>

\* C8: a put that meets no I/O error while it writes returns True and leaves
\* the cache file holding a mapping with the new entry of its date, whatever
\* the file held before.
C8_PutFailsOnlyOnIoError ==
    [][\A p \in Procs :
          (proc[p].pc # "done" /\ proc'[p].pc = "done" /\ proc'[p].op = "put"
              /\ ~proc'[p].ioError) =>
              /\ proc'[p].ok
              /\ HoldsEntry(cacheFile', IsoFormat(proc'[p].date), proc'[p].image_url)]_vars

\* C9: a crawl-only run never calls the webhook sender, and one that ends
\* with exit status 0 leaves the cache file holding an entry for today.
C9_CrawlOnly ==
    (mainRun.ran /\ mainRun.crawl_only) =>
        /\ ~mainRun.sent
        /\ mainRun.exit = "0" =>
               (cacheFile.kind = "dict" /\ IsoFormat(mainRun.today) \in DOMAIN cacheFile.data)

====
